---- MODULE Spec2Model ----
(***************************************************************************)
(* Model of the training notebook DSC_Workshop_Neural_Nets_tim.ipynb:      *)
(* the data loaders, train(), test() and the epoch loop.                   *)
(*                                                                         *)
(* Samples of a dataset of size S are numbered 1..S (Python: 0..S-1).      *)
(* Python floats are modelled as exact rationals plus the value NaN, which *)
(* propagates through arithmetic and compares false, as in IEEE-754.       *)
(* The outputs of the network on a batch depend on the parameters and the  *)
(* images, which are not modelled: the per-sample loss and whether the     *)
(* highest score is the true label are chosen nondeterministically.        *)
(* The notebook runs the epoch loop a second time on a new model with the  *)
(* same train() and test(); the model covers one run of the loop.          *)
(*                                                                         *)
(* Spec follows train(), test() and the epoch loop statement by statement. *)
(* PredictSpec follows the last cell, which shows the predictions on the   *)
(* validation set in a grid of axes; there the epoch loop is a single step *)
(* and the validation set can outgrow the grid.                            *)
(***************************************************************************)
EXTENDS Integers, Sequences, FiniteSets

\* ------------------------------------------------------------------ bounds
\* Largest number of samples in the training folder.
MaxTrain == 2
\* Largest number of samples in the validation folder.
MaxVal == 3
\* Largest batch size tried (the notebook passes batch_size=32).
MaxBatch == 2
\* Number of epochs of the loop (the notebook sets epochs = 50).
epochs == 2
\* Largest finite per-sample loss value.
MaxLoss == 1
\* Largest validation folder shown by the prediction grid cell.
MaxShown == 82

\* --------------------------------------------------------------- constants
\* len(classes): the list of class names has 8 entries.
NumClasses == 8
\* Output features of the last layer, nn.Linear(64, 8).
NumOutputs == 8
\* plt.subplots(ncols=9, nrows=9, ...)
GridCols == 9
GridRows == 9

VARIABLES
    pc,            \* position of the notebook's control
    trainSize,     \* len(train_set)
    valSize,       \* len(val_set)
    batch_size,    \* batch_size= of both loaders
    epoch,         \* loop variable of the epoch loop (-1 before the loop)
    training,      \* model.training, set by model.train() / model.eval()
    params,        \* model parameters: the updates applied since initialisation
    grad,          \* .grad buffers: the backward contributions accumulated in them
    order,         \* sample order of the running pass of a loader
    pos,           \* samples of the running pass already yielded
    batch,         \* enumerate() index of the current batch, -1 before the first
    X,             \* current batch (sequence of sample numbers)
    pred,          \* train(): forward pass of the current batch done
    loss,          \* train(): loss of the current batch
    t_train_loss,  \* train(): local train_loss
    v_test_loss,   \* test(): local test_loss
    correct,       \* test(): local correct
    train_loss,    \* epoch loop: train_loss
    test_loss,     \* epoch loop: test_loss
    test_correct,  \* epoch loop: test_correct
    best_score,    \* epoch loop: best_score
    \* configuration and state of the prediction grid cell
    device,        \* "cuda" if torch.cuda.is_available() else "cpu"
    trainFolders,  \* number of class folders under data/train
    valFolders,    \* number of class folders under data/test
    predictor,     \* which class the trained network's highest score falls on
    idx,           \* samples handled by the running loop of the cell
    image_list,    \* image_list: per entry, the sample whose image file was read
    labels,        \* labels: per entry, the sample and its label
    preds,         \* preds: per entry, the sample and the class predicted for it
    at,            \* axes position of the last image shown, << -1, -1 >> before
    raised,        \* the exception that ended the run, "none" while there is none
    \* history variables (not program state)
    calls,         \* calls of the model: where, device of the input, of the model
    looked,        \* indices looked up in classes by the prediction grid cell
    log,           \* steps executed on the current training batch, in order
    trace,         \* training and evaluation steps completed so far, in order
    visits,        \* samples yielded in the running pass, in order
    sizes,         \* sizes of the batches yielded in the running pass
    hits,          \* validation samples of this pass whose top class was the label
    lossTotal,     \* sum of the per-sample losses of this validation pass
    passLoss,      \* sum of the losses of the batches processed in the running pass
    accs           \* accuracies returned by test(), one per completed epoch

vars == << device, trainFolders, valFolders, predictor, idx, image_list, labels,
           preds, at, raised, calls, looked,
           pc, trainSize, valSize, batch_size, epoch, training, params, grad,
           order, pos, batch, X, pred, loss, t_train_loss, v_test_loss, correct,
           train_loss, test_loss, test_correct, best_score,
           log, trace, visits, sizes, hits, lossTotal, passLoss, accs >>

\* ------------------------------------------------------------------ floats
\* The float operations are functions: their arguments are values.
Float == [nan : BOOLEAN, num : Nat, den : Nat]

GCD[a \in Nat, b \in Nat] == IF b = 0 THEN a ELSE GCD[b, a % b]

NaN == [nan |-> TRUE, num |-> 0, den |-> 1]

\* The float n/d (n >= 0, d > 0), in lowest terms.
Flt[n \in Nat, d \in Nat] ==
    LET g == GCD[n, d] IN [nan |-> FALSE, num |-> n \div g, den |-> d \div g]

Zero == Flt[0, 1]

FAdd[a \in Float, b \in Float] ==
    IF a.nan \/ b.nan THEN NaN
    ELSE Flt[a.num * b.den + b.num * a.den, a.den * b.den]

FDivInt[a \in Float, n \in Nat] == IF a.nan THEN NaN ELSE Flt[a.num, a.den * n]

FMulInt[a \in Float, n \in Nat] == IF a.nan THEN NaN ELSE Flt[a.num * n, a.den]

\* a > b, a >= b and a == b on floats: false when either side is NaN.
FGt(a, b) == ~a.nan /\ ~b.nan /\ a.num * b.den > b.num * a.den
FGe(a, b) == ~a.nan /\ ~b.nan /\ a.num * b.den >= b.num * a.den
FEq(a, b) == ~a.nan /\ ~b.nan /\ a.num * b.den = b.num * a.den

\* Mutant of PyMax: the latest value is kept.
PyMax_last(a, b) == b

\* Python's max(a, b): the first argument unless the second is greater.
PyMax(a, b) == IF FGt(b, a) THEN b ELSE a

FSum[s \in Seq(Float)] == IF s = << >> THEN Zero ELSE FAdd[Head(s), FSum[Tail(s)]]

\* Values a per-sample cross-entropy can take: finite and >= 0, or NaN when the
\* scores are not finite.
SampleLossVals == { Flt[n, 1] : n \in 0..MaxLoss } \cup { NaN }

\* nn.CrossEntropyLoss() with its default reduction: the mean over the batch.
loss_fn(ls) == FDivInt[FSum[ls], Len(ls)]

\* ------------------------------------------------------------------ loaders
Min(a, b) == IF a < b THEN a ELSE b

\* len(dataloader) of DataLoader(dataset, batch_size=B) (drop_last is False).
LenLoader(S, B) == (S + B - 1) \div B

\* Mutant of Shuffled: sampling with replacement.
Shuffled_replacement(S) == [1..S -> 1..S]

\* Orders a shuffle=True loader can draw for one pass: the permutations.
Shuffled(S) == { f \in [1..S -> 1..S] : \A i, j \in 1..S : f[i] = f[j] => i = j }

\* Order of a shuffle=False loader: the dataset order.
Sequential(S) == [i \in 1..S |-> i]

\* The batch a pass yields next, after p samples of order o.
NextBatch(o, p, B) == SubSeq(o, p + 1, Min(p + B, Len(o)))

\* ------------------------------------------------- datasets, device, network
\* device = "cuda" if torch.cuda.is_available() else "cpu"
Devices == { "cpu", "cuda" }

\* Numbers of class folders tried for a data directory: one, as many as the
\* class list has names, and one more.
FolderCounts == { 1, NumClasses, NumClasses + 1 }

\* ImageFolder: the label of a sample is the position of its class folder among
\* the n sorted class folders, and the samples come folder by folder. Sample s
\* (numbered from 1) of a directory whose folders but the last hold one file
\* each has this label.
LabelOf(s, n) == Min(s - 1, n - 1)

\* The labels a dataset of S samples in n class folders produces.
DatasetLabels(S, n) == { LabelOf(s, n) : s \in 1..S }

\* Mutant of Scores: the last layer has one output more than there are classes.
Scores_extra == 0..NumOutputs

\* Indices of the scores the network gives per sample: pred.argmax(1) is one
\* of them, and loss_fn accepts the labels among them and no others.
Scores == 0..(NumOutputs - 1)

\* The networks tried by the prediction grid cell: the highest score falls on
\* the first class for every image, on the last class for every image, or on
\* the label of the image.
Predictors == { "first", "last", "label" }

\* pred.argmax(1) for sample s of the validation set.
ArgMax(p, s) ==
    CASE p = "first" -> 0
      [] p = "last"  -> CHOOSE c \in Scores : \A d \in Scores : d <= c
      [] p = "label" -> IF LabelOf(s, valFolders) \in Scores
                          THEN LabelOf(s, valFolders) ELSE 0

\* A call model(x) made in `where` with x on device `input`, the model being on
\* the device it was moved to when built, NeuralNetwork().to(device).
ModelCall(where, input) == [where |-> where, input |-> input, model |-> device]

\* State of the prediction grid cell before it runs.
CellIdle ==
    /\ idx = 0
    /\ image_list = << >>
    /\ labels = << >>
    /\ preds = << >>
    /\ at = << -1, -1 >>
    /\ raised = "none"
    /\ looked = {}

\* ------------------------------------------------------------------ program
\* State of the model, of the locals of train() and test() and of the epoch
\* loop's variables before the epoch loop.
LoopIdle ==
    /\ epoch = -1
    /\ training = TRUE
    /\ params = << >>
    /\ grad = << >>
    /\ order = << >>
    /\ pos = 0
    /\ batch = -1
    /\ X = << >>
    /\ pred = FALSE
    /\ loss = Zero
    /\ t_train_loss = Zero
    /\ v_test_loss = Zero
    /\ correct = 0
    /\ train_loss = Zero
    /\ test_loss = Zero
    /\ test_correct = Zero
    /\ best_score = Zero
    /\ log = << >>
    /\ trace = << >>
    /\ visits = << >>
    /\ sizes = << >>
    /\ hits = {}
    /\ lossTotal = Zero
    /\ passLoss = Zero
    /\ accs = << >>

\* The notebook before the epoch loop. The steps of the loop read neither the
\* class folders nor the network's choice of class, and they use the device
\* only to move each batch to where the model is: Spec follows them for the
\* class list's 8 folders, one network and one device; PredictSpec has the
\* other folders, networks and device.
Init ==
    /\ pc = "for_epoch"
    /\ device = "cpu"
    /\ trainFolders = NumClasses
    /\ valFolders = NumClasses
    /\ predictor = "label"
    /\ trainSize \in 1..MaxTrain
    /\ valSize \in 1..MaxVal
    /\ batch_size \in 1..MaxBatch
    /\ calls = {}
    /\ LoopIdle
    /\ CellIdle

cfgVars   == << trainSize, valSize, batch_size >>
dataVars  == << device, trainFolders, valFolders, predictor >>
cellVars  == << idx, image_list, labels, preds, at, raised, looked >>
modelVars == << training, params, grad >>
iterVars  == << order, pos, batch, X >>
trainVars == << pred, loss, t_train_loss >>
testVars  == << v_test_loss, correct >>
mainVars  == << train_loss, test_loss, test_correct, best_score >>
passHist  == << visits, sizes, hits, lossTotal, passLoss >>
loopVars  == << cfgVars, params, grad, iterVars, trainVars, testVars, mainVars,
                log, trace, passHist, accs >>

\* Identity of the gradient that backward() computes for the current batch.
BatchGrad == [epoch |-> epoch, batch |-> batch]

\* Mutant of ForEpoch: early stopping once the best score is 100%.
ForEpoch_early_stop ==
    /\ pc = "for_epoch"
    /\ IF epoch + 1 < epochs /\ ~FGe(best_score, Flt[100, 1])
         THEN /\ epoch' = epoch + 1
              /\ pc' = "call_train"
         ELSE /\ pc' = "done"
              /\ UNCHANGED epoch
    /\ visits' = << >>
    /\ sizes' = << >>
    /\ hits' = {}
    /\ lossTotal' = Zero
    /\ passLoss' = Zero
    /\ UNCHANGED << dataVars, cellVars, calls, cfgVars, modelVars, iterVars, trainVars, testVars, mainVars,
                    log, trace, accs >>

\* for epoch in range(epochs): ... ; after the loop the best score is printed.
ForEpoch ==
    /\ pc = "for_epoch"
    /\ IF epoch + 1 < epochs
         THEN /\ epoch' = epoch + 1
              /\ pc' = "call_train"
         ELSE /\ pc' = "done"
              /\ UNCHANGED epoch
    /\ visits' = << >>
    /\ sizes' = << >>
    /\ hits' = {}
    /\ lossTotal' = Zero
    /\ passLoss' = Zero
    /\ UNCHANGED << dataVars, cellVars, calls, cfgVars, modelVars, iterVars, trainVars, testVars, mainVars,
                    log, trace, accs >>

\* Mutant of TrainEnter: model.train() is not called.
TrainEnter_no_mode ==
    /\ pc = "call_train"
    /\ t_train_loss' = Zero
    /\ order' \in Shuffled(trainSize)
    /\ pos' = 0
    /\ batch' = -1
    /\ X' = << >>
    /\ visits' = << >>
    /\ sizes' = << >>
    /\ passLoss' = Zero
    /\ pc' = "t_for"
    /\ UNCHANGED << dataVars, cellVars, calls, cfgVars, epoch, modelVars, pred, loss, testVars, mainVars,
                    log, trace, hits, lossTotal, accs >>

\* train(): entry, up to the creation of the loader's iterator.
TrainEnter ==
    /\ pc = "call_train"
    /\ training' = TRUE
    /\ t_train_loss' = Zero
    /\ order' \in Shuffled(trainSize)
    /\ pos' = 0
    /\ batch' = -1
    /\ X' = << >>
    /\ visits' = << >>
    /\ sizes' = << >>
    /\ passLoss' = Zero
    /\ pc' = "t_for"
    /\ UNCHANGED << dataVars, cellVars, calls, cfgVars, epoch, params, grad, pred, loss, testVars, mainVars,
                    log, trace, hits, lossTotal, accs >>

\* Mutant of TrainNext: zero_grad() called after backward() instead of before.
TrainNext_swapped(p) ==
    CASE p = "t_forward"  -> "t_loss"
      [] p = "t_loss"     -> "t_backward"
      [] p = "t_backward" -> "t_zero"
      [] p = "t_zero"     -> "t_step"
      [] p = "t_step"     -> "t_accum"
      [] p = "t_accum"    -> "t_for"

\* Position after each statement of the body of train()'s batch loop.
TrainNext(p) ==
    CASE p = "t_forward"  -> "t_loss"
      [] p = "t_loss"     -> "t_zero"
      [] p = "t_zero"     -> "t_backward"
      [] p = "t_backward" -> "t_step"
      [] p = "t_step"     -> "t_accum"
      [] p = "t_accum"    -> "t_for"

\* for batch, (X, y) in enumerate(dataloader): whether the pass has another batch.
TrainMore == pos < Len(order)

\* for batch, (X, y) in enumerate(dataloader): the next batch.
TrainFetch ==
    /\ pc = "t_for"
    /\ TrainMore
    /\ X' = NextBatch(order, pos, batch_size)
    /\ pos' = pos + Len(X')
    /\ batch' = batch + 1
    /\ visits' = visits \o X'
    /\ sizes' = Append(sizes, Len(X'))
    /\ log' = << >>
    /\ pc' = "t_forward"
    /\ UNCHANGED << dataVars, cellVars, calls, cfgVars, epoch, modelVars, order, trainVars, testVars, mainVars,
                    trace, hits, lossTotal, passLoss, accs >>

\* X, y = X.to(device), y.to(device); pred = model(X)
TrainForward ==
    /\ pc = "t_forward"
    /\ pred' = TRUE
    /\ calls' = calls \cup { ModelCall("train", device) }
    /\ log' = Append(log, "forward")
    /\ pc' = TrainNext(pc)
    /\ UNCHANGED << dataVars, cellVars, cfgVars, epoch, modelVars, iterVars, loss, t_train_loss, testVars,
                    mainVars, trace, passHist, accs >>

\* loss = loss_fn(pred, y). The samples of a training batch are given one
\* common loss value l: train() only sums the batch means.
TrainLoss ==
    /\ pc = "t_loss"
    /\ \E l \in SampleLossVals : loss' = loss_fn([i \in 1..Len(X) |-> l])
    /\ passLoss' = FAdd[passLoss, loss']
    /\ log' = Append(log, "loss")
    /\ pc' = TrainNext(pc)
    /\ UNCHANGED << dataVars, cellVars, calls, cfgVars, epoch, modelVars, iterVars, pred, t_train_loss, testVars,
                    mainVars, trace, visits, sizes, hits, lossTotal, accs >>

\* Mutant of ZeroGrad: the call is missing, the buffers keep their content.
ZeroGrad_missing ==
    /\ pc = "t_zero"
    /\ log' = Append(log, "zero_grad")
    /\ pc' = TrainNext(pc)
    /\ UNCHANGED << dataVars, cellVars, calls, cfgVars, epoch, modelVars, iterVars, trainVars, testVars,
                    mainVars, trace, passHist, accs >>

\* optimizer.zero_grad()
ZeroGrad ==
    /\ pc = "t_zero"
    /\ grad' = << >>
    /\ log' = Append(log, "zero_grad")
    /\ pc' = TrainNext(pc)
    /\ UNCHANGED << dataVars, cellVars, calls, cfgVars, epoch, training, params, iterVars, trainVars, testVars,
                    mainVars, trace, passHist, accs >>

\* loss.backward(): adds the batch's gradient to the .grad buffers.
Backward ==
    /\ pc = "t_backward"
    /\ grad' = Append(grad, BatchGrad)
    /\ log' = Append(log, "backward")
    /\ pc' = TrainNext(pc)
    /\ UNCHANGED << dataVars, cellVars, calls, cfgVars, epoch, training, params, iterVars, trainVars, testVars,
                    mainVars, trace, passHist, accs >>

\* optimizer.step(): params <- params - lr * grad.
OptStep ==
    /\ pc = "t_step"
    /\ params' = Append(params, grad)
    /\ log' = Append(log, "step")
    /\ pc' = TrainNext(pc)
    /\ UNCHANGED << dataVars, cellVars, calls, cfgVars, epoch, training, grad, iterVars, trainVars, testVars,
                    mainVars, trace, passHist, accs >>

\* train_loss += loss.item()
TrainAccum ==
    /\ pc = "t_accum"
    /\ t_train_loss' = FAdd[t_train_loss, loss]
    /\ trace' = Append(trace, << "train", epoch, batch >>)
    /\ pc' = TrainNext(pc)
    /\ UNCHANGED << dataVars, cellVars, calls, cfgVars, epoch, modelVars, iterVars, pred, loss, testVars,
                    mainVars, log, passHist, accs >>

\* The loader is exhausted: avg_loss = train_loss / num_batches; return avg_loss
\* (the locals die).
TrainReturn ==
    /\ pc = "t_for"
    /\ ~TrainMore
    /\ train_loss' = FDivInt[t_train_loss, LenLoader(trainSize, batch_size)]
    /\ t_train_loss' = Zero
    /\ loss' = Zero
    /\ pred' = FALSE
    /\ order' = << >>
    /\ pos' = 0
    /\ batch' = -1
    /\ X' = << >>
    /\ log' = << >>
    /\ pc' = "call_test"
    /\ UNCHANGED << dataVars, cellVars, calls, cfgVars, epoch, modelVars, testVars, test_loss, test_correct,
                    best_score, trace, passHist, accs >>

\* Mutant of TestEnter: test() has no fresh loss accumulator, it goes on from the
\* loss the training pass of the epoch left.
TestEnter_carry ==
    /\ pc = "call_test"
    /\ training' = FALSE
    /\ v_test_loss' = train_loss
    /\ correct' = 0
    /\ order' = Sequential(valSize)
    /\ pos' = 0
    /\ X' = << >>
    /\ visits' = << >>
    /\ sizes' = << >>
    /\ hits' = {}
    /\ lossTotal' = Zero
    /\ passLoss' = Zero
    /\ pc' = "v_for"
    /\ UNCHANGED << dataVars, cellVars, calls, cfgVars, epoch, params, grad, batch, trainVars, mainVars,
                    log, trace, accs >>

\* Mutant of TestEnter: the validation loader shuffles as the training loader does.
TestEnter_shuffled ==
    /\ pc = "call_test"
    /\ training' = FALSE
    /\ v_test_loss' = Zero
    /\ correct' = 0
    /\ order' \in Shuffled(valSize)
    /\ pos' = 0
    /\ X' = << >>
    /\ visits' = << >>
    /\ sizes' = << >>
    /\ hits' = {}
    /\ lossTotal' = Zero
    /\ passLoss' = Zero
    /\ pc' = "v_for"
    /\ UNCHANGED << dataVars, cellVars, calls, cfgVars, epoch, params, grad, batch, trainVars, mainVars,
                    log, trace, accs >>

\* test(): entry, up to the creation of the loader's iterator.
TestEnter ==
    /\ pc = "call_test"
    /\ training' = FALSE
    /\ v_test_loss' = Zero
    /\ correct' = 0
    /\ order' = Sequential(valSize)
    /\ pos' = 0
    /\ X' = << >>
    /\ visits' = << >>
    /\ sizes' = << >>
    /\ hits' = {}
    /\ lossTotal' = Zero
    /\ passLoss' = Zero
    /\ pc' = "v_for"
    /\ UNCHANGED << dataVars, cellVars, calls, cfgVars, epoch, params, grad, batch, trainVars, mainVars,
                    log, trace, accs >>

\* Mutant of TestMore: the loop is left after its first batch.
TestMore_first_only == pos < Len(order) /\ pos = 0

\* for X, y in dataloader: whether the pass has another batch.
TestMore == pos < Len(order)

\* Results the network can give on a batch of n samples: per sample, whether
\* the highest score is the true label, and the cross-entropy loss.
Outs(n) == [1..n -> [hit : BOOLEAN, loss : SampleLossVals]]

\* Mutant of EvalBody: the loss is backpropagated during evaluation.
EvalBody_backward(Xn, outs) ==
    /\ v_test_loss' = FAdd[v_test_loss, loss_fn([i \in 1..Len(Xn) |-> outs[i].loss])]
    /\ correct' = correct + Cardinality({ i \in 1..Len(Xn) : outs[i].hit })
    /\ hits' = hits \cup { Xn[i] : i \in { j \in 1..Len(Xn) : outs[j].hit } }
    /\ lossTotal' = FAdd[lossTotal, FSum[[i \in 1..Len(Xn) |-> outs[i].loss]]]
    /\ passLoss' = FAdd[passLoss, loss_fn([i \in 1..Len(Xn) |-> outs[i].loss])]
    /\ calls' = calls \cup { ModelCall("test", device) }
    /\ grad' = Append(grad, BatchGrad)
    /\ UNCHANGED << training, params >>

\* The body of test()'s loop on batch Xn, under torch.no_grad(): the batch is
\* moved to the device, forward pass,
\* test_loss += loss_fn(preds, y).item(), correct += number of samples whose
\* argmax is the label. outs[i] is the network's result on sample Xn[i].
EvalBody(Xn, outs) ==
    /\ v_test_loss' = FAdd[v_test_loss, loss_fn([i \in 1..Len(Xn) |-> outs[i].loss])]
    /\ correct' = correct + Cardinality({ i \in 1..Len(Xn) : outs[i].hit })
    /\ hits' = hits \cup { Xn[i] : i \in { j \in 1..Len(Xn) : outs[j].hit } }
    /\ lossTotal' = FAdd[lossTotal, FSum[[i \in 1..Len(Xn) |-> outs[i].loss]]]
    /\ passLoss' = FAdd[passLoss, loss_fn([i \in 1..Len(Xn) |-> outs[i].loss])]
    /\ calls' = calls \cup { ModelCall("test", device) }
    /\ UNCHANGED modelVars

\* One turn of test()'s loop: the next batch is fetched and evaluated.
TestBatch ==
    /\ pc = "v_for"
    /\ TestMore
    /\ X' = NextBatch(order, pos, batch_size)
    /\ pos' = pos + Len(X')
    /\ batch' = batch + 1
    /\ visits' = visits \o X'
    /\ sizes' = Append(sizes, Len(X'))
    /\ \E outs \in Outs(Len(X')) : EvalBody(X', outs)
    /\ trace' = Append(trace, << "eval", epoch, batch' >>)
    /\ pc' = "v_for"
    /\ UNCHANGED << dataVars, cellVars, cfgVars, epoch, order, trainVars, mainVars, log, accs >>

\* Mutant of Accuracy: the count is divided by the number of batches, as the
\* loss is.
Accuracy_per_batch(c, size, num_batches) == FMulInt[FDivInt[Flt[c, 1], num_batches], 100]

\* correct /= size; correct*100
Accuracy(c, size, num_batches) == FMulInt[FDivInt[Flt[c, 1], size], 100]

\* test_loss /= num_batches
MeanLoss(total, size, num_batches) == FDivInt[total, num_batches]

\* The loader is exhausted: test_loss /= num_batches; correct /= size;
\* return correct*100, test_loss (the locals die).
TestReturn ==
    /\ pc = "v_for"
    /\ ~TestMore
    /\ test_correct' = Accuracy(correct, valSize, LenLoader(valSize, batch_size))
    /\ test_loss' = MeanLoss(v_test_loss, valSize, LenLoader(valSize, batch_size))
    /\ v_test_loss' = Zero
    /\ correct' = 0
    /\ order' = << >>
    /\ pos' = 0
    /\ batch' = -1
    /\ X' = << >>
    /\ pc' = "print"
    /\ UNCHANGED << dataVars, cellVars, calls, cfgVars, epoch, modelVars, trainVars, train_loss, best_score,
                    log, trace, passHist, accs >>

\* print(...); best_score = max(best_score, test_correct). The three printed
\* values are not read again before the next epoch overwrites them: the model
\* forgets them here.
PrintUpdate ==
    /\ pc = "print"
    /\ best_score' = PyMax(best_score, test_correct)
    /\ accs' = Append(accs, test_correct)
    /\ train_loss' = Zero
    /\ test_loss' = Zero
    /\ test_correct' = Zero
    /\ pc' = "for_epoch"
    /\ UNCHANGED << dataVars, cellVars, calls, cfgVars, epoch, modelVars, iterVars, trainVars, testVars,
                    log, trace, passHist >>

Next ==
    \/ ForEpoch
    \/ TrainEnter
    \/ TrainFetch
    \/ TrainForward
    \/ TrainLoss
    \/ ZeroGrad
    \/ Backward
    \/ OptStep
    \/ TrainAccum
    \/ TrainReturn
    \/ TestEnter
    \/ TestBatch
    \/ TestReturn
    \/ PrintUpdate

Spec == Init /\ [][Next]_vars

\* The notebook runs its cells to the end without interruption.
FairSpec == Spec /\ WF_vars(Next)

\* ------------------------------------------------- the prediction grid cell
\* The notebook with its datasets loaded and its model built, for the run that
\* ends with the prediction grid cell. Every class folder of data/train holds
\* one image.
PredictInit ==
    /\ pc = "loaded"
    /\ device \in Devices
    /\ trainFolders \in FolderCounts
    /\ valFolders \in FolderCounts
    /\ predictor \in Predictors
    /\ trainSize = trainFolders
    /\ valSize \in 1..MaxShown
    /\ batch_size = MaxBatch
    /\ calls = {}
    /\ LoopIdle
    /\ CellIdle

\* The epoch loop as one step, as far as the prediction grid cell depends on
\* it: train() and test() move each batch to the device and call the model on
\* it; loss_fn raises on a label that is not the index of a score (train() meets
\* the labels of the training set first); the loop leaves the model in eval
\* mode.
RunEpochs ==
    /\ pc = "loaded"
    /\ IF ~(DatasetLabels(trainSize, trainFolders) \subseteq Scores)
         THEN /\ calls' = calls \cup { ModelCall("train", device) }
              /\ training' = TRUE
              /\ epoch' = 0
              /\ raised' = "target"
              /\ pc' = "failed"
         ELSE /\ calls' = calls \cup { ModelCall("train", device),
                                       ModelCall("test", device) }
              /\ training' = FALSE
              /\ IF ~(DatasetLabels(valSize, valFolders) \subseteq Scores)
                   THEN /\ epoch' = 0
                        /\ raised' = "target"
                        /\ pc' = "failed"
                   ELSE /\ epoch' = epochs - 1
                        /\ raised' = "none"
                        /\ pc' = "predict"
    /\ UNCHANGED << dataVars, idx, image_list, labels, preds, at, looked, loopVars >>

\* One turn of for i, (x, y) in enumerate(val_set): the image file of sample i
\* is read and appended, y is appended, and the model is called on
\* x.unsqueeze(0), which is on the cpu as the dataset made it; the call raises
\* when the model is on another device.
PredictStep ==
    /\ pc = "predict"
    /\ idx < valSize
    /\ LET s == idx + 1 IN
         /\ image_list' = Append(image_list, s)
         /\ labels' = Append(labels, [sample |-> s, cls |-> LabelOf(s, valFolders)])
         /\ calls' = calls \cup { ModelCall("predict", "cpu") }
         /\ IF device = "cpu"
              THEN /\ preds' = Append(preds, [sample |-> s, cls |-> ArgMax(predictor, s)])
                   /\ idx' = idx + 1
                   /\ UNCHANGED << pc, raised >>
              ELSE /\ raised' = "device"
                   /\ pc' = "failed"
                   /\ UNCHANGED << preds, idx >>
    /\ UNCHANGED << dataVars, at, looked, epoch, training, loopVars >>

\* val_set is exhausted; fig, axs = plt.subplots(ncols=9, nrows=9, ...)
Subplots ==
    /\ pc = "predict"
    /\ idx = valSize
    /\ idx' = 0
    /\ pc' = "plot"
    /\ UNCHANGED << dataVars, image_list, labels, preds, at, raised, looked, calls,
                    epoch, training, loopVars >>

\* Axes position of image i (counted from 0): axs[i // 9, i % 9].
Position(i) == << i \div GridCols, i % GridCols >>

\* Whether axs, of shape (nrows, ncols), has position p.
InGrid(p) == p[1] \in 0..(GridRows - 1) /\ p[2] \in 0..(GridCols - 1)

\* Whether classes[c] is within the list.
InClasses(c) == c \in 0..(NumClasses - 1)

\* One turn of for i, img in enumerate(image_list): the image is shown at its
\* axes position and titled with classes[labels[i]] and classes[preds[i]]; an
\* index outside axs or outside classes raises IndexError.
PlotStep ==
    /\ pc = "plot"
    /\ idx < Len(image_list)
    /\ IF ~InGrid(Position(idx))
         THEN /\ raised' = "axes"
              /\ pc' = "failed"
              /\ UNCHANGED << at, looked, idx >>
         ELSE /\ at' = Position(idx)
              /\ looked' = looked \cup { labels[idx + 1].cls, preds[idx + 1].cls }
              /\ IF InClasses(labels[idx + 1].cls) /\ InClasses(preds[idx + 1].cls)
                   THEN /\ idx' = idx + 1
                        /\ UNCHANGED << pc, raised >>
                   ELSE /\ raised' = "classes"
                        /\ pc' = "failed"
                        /\ UNCHANGED idx
    /\ UNCHANGED << dataVars, image_list, labels, preds, calls, epoch, training,
                    loopVars >>

\* image_list is exhausted: the cell has run to its end.
PlotEnd ==
    /\ pc = "plot"
    /\ idx = Len(image_list)
    /\ pc' = "shown"
    /\ UNCHANGED << dataVars, cellVars, calls, epoch, training, loopVars >>

PredictNext ==
    \/ RunEpochs
    \/ PredictStep
    \/ Subplots
    \/ PlotStep
    \/ PlotEnd

PredictSpec == PredictInit /\ [][PredictNext]_vars

\* ------------------------------------------------------------------ claims
IsPrefix(s, t) == Len(s) <= Len(t) /\ SubSeq(t, 1, Len(s)) = s

InTrainLoop == pc \in { "t_for", "t_forward", "t_loss", "t_zero", "t_backward",
                        "t_step", "t_accum" }
InTest == pc \in { "call_test", "v_for" }

StepOrder == << "forward", "loss", "zero_grad", "backward", "step" >>

\* Batches of the running training pass whose five steps are all done.
BatchesDone == IF batch < 0 THEN 0 ELSE IF log = StepOrder THEN batch + 1 ELSE batch

\* C1: on every batch of train() the steps forward, loss, zero_grad, backward,
\* optimizer step run in this order, each once; the statement after the step
\* and the fetch of the next batch are reached only with all five done, and the
\* parameters have received exactly one update per batch done.
C1_StepOrder ==
    /\ IsPrefix(log, StepOrder)
    /\ (pc = "t_accum" => log = StepOrder)
    /\ (pc = "t_for" /\ batch >= 0 => log = StepOrder)
    /\ (InTrainLoop =>
          Len(params) = epoch * LenLoader(trainSize, batch_size) + BatchesDone)

C1_Witness == pc = "t_accum" /\ batch >= 1 /\ epoch >= 1

\* C2: at every optimizer.step() the gradient buffers hold the contribution of
\* the current batch and nothing else, so every update applied to the parameters
\* carries the gradient of exactly one batch, each batch a different one.
C2_NoAccumulation ==
    /\ (pc = "t_step" => grad = << BatchGrad >>)
    /\ \A i \in DOMAIN params : Len(params[i]) = 1
    /\ \A i, j \in DOMAIN params : params[i] = params[j] => i = j

C2_Witness == pc = "t_step" /\ epoch >= 1 /\ batch >= 1 /\ Len(params) >= 3

\* C3: no step of test() changes the parameters or the gradient buffers, and
\* test() never enters a step of the training loop.
C3_TestFrame ==
    [][InTest => params' = params /\ grad' = grad /\ ~InTrainLoop']_vars

C3_Witness == pc = "print" /\ Len(sizes) >= 2 /\ params # << >> /\ grad # << >>

\* The steps of epoch k: one training step per training batch, then one
\* evaluation step per validation batch.
EpochSteps(k) ==
    [i \in 1..LenLoader(trainSize, batch_size) |-> << "train", k, i - 1 >>]
    \o [i \in 1..LenLoader(valSize, batch_size) |-> << "eval", k, i - 1 >>]

RECURSIVE StepsThrough(_)
StepsThrough(k) == IF k < 0 THEN << >> ELSE StepsThrough(k - 1) \o EpochSteps(k)

\* C4: the steps completed so far are always an initial part of: for each epoch
\* in turn, every training batch once, then every validation batch once; and
\* when an epoch's figures are printed its steps are all done.
C4_EpochOrder ==
    /\ IsPrefix(trace, StepsThrough(epoch))
    /\ (pc \in { "print", "for_epoch", "done" } => trace = StepsThrough(epoch))

C4_Witness ==
    /\ pc = "print"
    /\ epoch >= 1
    /\ LenLoader(trainSize, batch_size) >= 2
    /\ LenLoader(valSize, batch_size) >= 2

\* C5: once an epoch has completed, best_score is one of the accuracies test()
\* returned so far and is at least each of them; one accuracy is recorded per
\* completed epoch.
C5_BestIsMax ==
    /\ (pc \in { "for_epoch", "done" } => Len(accs) = epoch + 1)
    /\ (accs # << >> =>
          /\ \E i \in DOMAIN accs : best_score = accs[i]
          /\ \A i \in DOMAIN accs : FGe(best_score, accs[i]))

C5_Witness == pc = "done" /\ Len(accs) >= 2 /\ FGt(accs[1], accs[Len(accs)])

\* C6: the epoch loop ends, and it ends (for good) with exactly `epochs` epochs
\* run, all their steps done and none more, whatever the losses and accuracies
\* were.
C6_Terminates ==
    <>[](pc = "done" /\ Len(accs) = epochs /\ trace = StepsThrough(epochs - 1))

C6_Witness ==
    /\ pc = "done"
    /\ accs[1] = Flt[100, 1]
    /\ Len(trace) = epochs * (LenLoader(trainSize, batch_size)
                              + LenLoader(valSize, batch_size))

\* The least n with n * B >= S.
CeilDiv(S, B) == CHOOSE n \in 0..S : n * B >= S /\ (n - 1) * B < S

\* A pass of the training loader, of the validation loader has just ended.
TrainPassEnded == pc = "call_test"
ValPassEnded == pc = "print"

\* Size of the dataset of the running or just ended pass.
PassSize == IF InTrainLoop \/ TrainPassEnded THEN trainSize ELSE valSize

\* C7: in every pass of either loader no sample is yielded twice, every batch
\* but the last has batch_size samples and the last has between 1 and
\* batch_size; when the pass ends it has yielded ceil(S/B) batches and every
\* sample of the dataset.
C7_BatchCover ==
    /\ \A i, j \in DOMAIN visits : visits[i] = visits[j] => i = j
    /\ \A i \in DOMAIN sizes :
         /\ sizes[i] \in 1..batch_size
         /\ (i < Len(sizes) => sizes[i] = batch_size)
    /\ (TrainPassEnded \/ ValPassEnded =>
          /\ Len(sizes) = CeilDiv(PassSize, batch_size)
          /\ { visits[i] : i \in DOMAIN visits } = 1..PassSize)

C7_Witness == ValPassEnded /\ epoch >= 1 /\ valSize = 3 /\ sizes = << 2, 1 >>

\* C8: the loss test() returns is the sum of the losses of all validation
\* samples divided by their number.
C8_PerSampleMean == pc = "print" => test_loss = FDivInt[lossTotal, valSize]

\* C9: the accuracy test() returns is 100 times the number of validation samples
\* whose top class is the label, divided by the size of the validation set, each
\* sample having been visited exactly once.
C9_Accuracy ==
    pc = "print" =>
      /\ visits = Sequential(valSize)
      /\ hits \subseteq 1..valSize
      /\ test_correct = Flt[100 * Cardinality(hits), valSize]

C9_Witness ==
    pc = "print" /\ valSize = 3 /\ batch_size = 2 /\ Cardinality(hits) = 2

\* C10 as claimed: test() reports an accuracy within [0, 100] and a mean loss
\* >= 0 for any input.
C10_AnyInput ==
    pc = "print" =>
      /\ FGe(test_correct, Zero)
      /\ FGe(Flt[100, 1], test_correct)
      /\ FGe(test_loss, Zero)

\* C10 amended: the accuracy is within [0, 100] for any input, and the mean loss
\* is >= 0 when no sample's loss is NaN.
C10_Range ==
    pc = "print" =>
      /\ FGe(test_correct, Zero)
      /\ FGe(Flt[100, 1], test_correct)
      /\ (~lossTotal.nan => FGe(test_loss, Zero))

C10_Witness ==
    /\ pc = "print"
    /\ Len(sizes) >= 2
    /\ test_correct = Flt[100, 1]
    /\ ~lossTotal.nan
    /\ FGt(test_loss, Zero)

\* C11: the accumulators of train() and test() are zero before the first batch
\* of every pass; between batches they hold what the batches of the running pass
\* contributed, and the values a pass returns are made of the contributions of
\* its own batches only, whatever earlier epochs and the other split produced.
C11_FreshAccumulators ==
    /\ (pc = "t_for" /\ pos = 0 => t_train_loss = Zero)
    /\ (pc = "v_for" /\ pos = 0 => v_test_loss = Zero /\ correct = 0)
    /\ (pc = "t_for" => t_train_loss = passLoss)
    /\ (pc = "v_for" => v_test_loss = passLoss /\ correct = Cardinality(hits))
    /\ (pc = "call_test" =>
          train_loss = FDivInt[passLoss, LenLoader(trainSize, batch_size)])
    /\ (pc = "print" =>
          /\ test_loss = FDivInt[passLoss, LenLoader(valSize, batch_size)]
          /\ test_correct = Flt[100 * Cardinality(hits), valSize])

\* The second epoch returns accuracy 0 and loss 0 after a first epoch with a
\* positive accuracy and a training pass with a positive loss.
C11_Witness ==
    /\ pc = "print"
    /\ epoch >= 1
    /\ Len(sizes) >= 2
    /\ FGt(accs[1], Zero)
    /\ FGt(train_loss, Zero)
    /\ test_correct = Zero
    /\ test_loss = Zero

\* A pass of the validation loader is running or has just ended.
InValPass == pc \in { "v_for", "print" }

\* C12: in every pass of the validation loader the samples come in dataset
\* order, and the k-th batch is the same block of consecutive samples in every
\* epoch: it depends on the dataset size and the batch size only.
C12_ValOrderFixed ==
    InValPass =>
      /\ visits = [i \in 1..Len(visits) |-> i]
      /\ \A k \in DOMAIN sizes :
           sizes[k] = Min(batch_size, valSize - (k - 1) * batch_size)
      /\ (pc = "v_for" /\ pos > 0 =>
            X = [i \in 1..Len(X) |-> (Len(sizes) - 1) * batch_size + i])

\* The second batch of the validation pass of the second epoch.
C12_Witness ==
    pc = "v_for" /\ epoch >= 1 /\ batch_size = 2 /\ Len(sizes) = 2 /\ X = << 3 >>

\* The sequence o holds every sample of 1..S exactly once.
IsPermutation(o, S) == Len(o) = S /\ { o[i] : i \in DOMAIN o } = 1..S

\* C13 as claimed, for training sets of two or more samples (one sample has one
\* order only): no pass of the training loader visits the samples in plain
\* index order.
C13_NeverSequential ==
    TrainPassEnded /\ trainSize >= 2 => visits # Sequential(trainSize)

\* C13 amended: the order of every pass of the training loader is a permutation
\* of the samples, and the samples are visited in that order; plain index order
\* is one of the permutations.
C13_TrainOrder ==
    /\ (InTrainLoop =>
          /\ IsPermutation(order, trainSize)
          /\ visits = SubSeq(order, 1, pos))
    /\ (TrainPassEnded => IsPermutation(visits, trainSize))

\* A pass of the second epoch that did not go in index order.
C13_Witness ==
    TrainPassEnded /\ epoch >= 1 /\ trainSize >= 2 /\ visits # Sequential(trainSize)

\* C16: the model is in train mode in every state of train()'s loop and in eval
\* mode in every state of test()'s loop, in every epoch; from the first call of
\* test() on it is in eval mode whenever the epoch loop is between passes, and
\* so when the loop has ended.
C16_Modes ==
    /\ (InTrainLoop => training)
    /\ (pc = "v_for" => ~training)
    /\ (pc \in { "print", "done" } => ~training)
    /\ (pc = "for_epoch" /\ epoch >= 0 => ~training)

\* A training step of the second epoch: the previous pass left eval mode behind.
C16_Witness == pc = "t_backward" /\ epoch >= 1 /\ batch >= 1 /\ training

\* C14: every call of the model, in train(), in test() and in the loop of the
\* prediction grid cell, gets an input that is on the device of the model, and
\* no step fails because of the device, whether the device is cpu or cuda.
C14_SameDevice ==
    /\ \A c \in calls : c.input = c.model
    /\ raised # "device"

\* The indices of the class list.
ClassIndices == 0..(NumClasses - 1)

\* The prediction grid cell is running or has run to its end.
InCell == pc \in { "predict", "plot", "shown" }

CellOver == pc = "shown" \/ (pc = "failed" /\ raised # "target")

\* C17: every image of the validation set gets an axes position inside the
\* grid, and the lists image_list, labels and preds hold one entry per
\* validation sample, entry i of each being about sample i.
C17_GridAndLists ==
    /\ raised # "axes"
    /\ (at = << -1, -1 >> \/ (at[1] \in 0..(GridRows - 1) /\ at[2] \in 0..(GridCols - 1)))
    /\ (pc = "plot" \/ CellOver =>
          /\ Len(image_list) = valSize
          /\ Len(labels) = valSize
          /\ Len(preds) = valSize
          /\ \A k \in 1..valSize :
               image_list[k] = k /\ labels[k].sample = k /\ preds[k].sample = k)
    /\ (pc = "shown" => at = << (valSize - 1) \div GridCols, (valSize - 1) % GridCols >>)

====
